---------------------------- MODULE Spec2Model ----------------------------
(***************************************************************************)
(* generate-android-icons.py: the launcher-icon generator and the XML      *)
(* resource copier, as a state machine over the file system the script     *)
(* reads and writes.                                                       *)
(*                                                                         *)
(* A path is a sequence of names.  The file system is `dirs` (the          *)
(* directories that exist) and `files` (a function from the paths of the   *)
(* regular files to their contents).  An image is a record of its mode,    *)
(* its size and a description of its bands; a band is described by what    *)
(* the library call that produced it computes, and PixelAt reads a pixel   *)
(* of it.                                                                  *)
(***************************************************************************)
EXTENDS Integers, Sequences, FiniteSets, TLC

(* How many times the script is started, one run after the other.          *)
MaxRuns == 2

---------------------------------------------------------------------------
(* Paths (main, lines 107-110).                                            *)

project_root == << >>

source_icon == project_root \o <<"assets", "icon.png">>

android_res == project_root \o <<"android", "app", "src", "main", "res">>

manual_fix_dir == project_root \o <<"android-resources-manual-fix">>

(* pathlib: p / name, and Path(p).name.                                    *)
Join(p, q) == p \o q

BaseName(p) == p[Len(p)]

(* The path itself and its ancestors below the project root.               *)
Prefixes(p) == { SubSeq(p, 1, n) : n \in 1..Len(p) }

---------------------------------------------------------------------------
(* The fixed tables.                                                       *)

(* The table as an iteration in the order of the keys would give it.       *)
densitiesByKey ==
    << [density |-> "hdpi",    size |-> 72],
       [density |-> "mdpi",    size |-> 48],
       [density |-> "xhdpi",   size |-> 96],
       [density |-> "xxhdpi",  size |-> 144],
       [density |-> "xxxhdpi", size |-> 192] >>

(* generate_icons, lines 36-42: a dict, iterated in insertion order.       *)
densities ==
    << [density |-> "mdpi",    size |-> 48],
       [density |-> "hdpi",    size |-> 72],
       [density |-> "xhdpi",   size |-> 96],
       [density |-> "xxhdpi",  size |-> 144],
       [density |-> "xxxhdpi", size |-> 192] >>

(* copy_xml_resources, lines 82-87.                                        *)
xml_files ==
    << [file_path |-> <<"values", "strings.xml">>,        subdir |-> <<"values">>],
       [file_path |-> <<"values", "styles.xml">>,         subdir |-> <<"values">>],
       [file_path |-> <<"values", "colors.xml">>,         subdir |-> <<"values">>],
       [file_path |-> <<"drawable", "splashscreen.xml">>, subdir |-> <<"drawable">>] >>

(* f'mipmap-{density}'                                                     *)
MipmapName(density) ==
    CASE density = "mdpi"    -> "mipmap-mdpi"
      [] density = "hdpi"    -> "mipmap-hdpi"
      [] density = "xhdpi"   -> "mipmap-xhdpi"
      [] density = "xxhdpi"  -> "mipmap-xxhdpi"
      [] density = "xxxhdpi" -> "mipmap-xxxhdpi"

mipmap_dir(output_base_path, i) ==
    Join(output_base_path, << MipmapName(densities[i].density) >>)

square_path(output_base_path, i) ==
    Join(mipmap_dir(output_base_path, i), <<"ic_launcher.png">>)

round_path(output_base_path, i) ==
    Join(mipmap_dir(output_base_path, i), <<"ic_launcher_round.png">>)

---------------------------------------------------------------------------
(* Images.                                                                 *)

(* A band whose every pixel is v.                                          *)
Const(v) == [kind |-> "const", fill |-> v, bg |-> v, box |-> <<0, 0, 0, 0>>]

(* Whether pixel (x, y) lies in the ellipse bounded by box = (x0,y0,x1,y1):*)
(* ((2x - x0 - x1) / (x1 - x0))^2 + ((2y - y0 - y1) / (y1 - y0))^2 <= 1,   *)
(* in integers.                                                            *)
InEllipse(box, x, y) ==
    LET w  == box[3] - box[1]
        h  == box[4] - box[2]
        dx == 2 * x - box[1] - box[3]
        dy == 2 * y - box[2] - box[4]
    IN  /\ dy * dy <= h * h
        /\ dx * dx * h * h <= w * w * (h * h - dy * dy)

(* The value of a band at pixel (x, y).                                    *)
PixelAt(band, x, y) ==
    IF band.kind = "ellipse"
    THEN IF InEllipse(band.box, x, y) THEN band.fill ELSE band.bg
    ELSE band.fill

(* Image.new(mode, size, color): 'L' has the one band, 'RGBA' has colour   *)
(* and alpha.                                                              *)
ImageNewL(size, color) == [mode |-> "L", size |-> size, l |-> Const(color)]

ImageNewRGBA(size, rgb, a) ==
    [mode |-> "RGBA", size |-> size,
     rgb |-> [of |-> rgb, filter |-> "none", edge |-> 0], alpha |-> Const(a)]

(* ImageDraw.Draw(mask).ellipse(box, fill): pixels of the ellipse take     *)
(* fill, the others keep what they had; no anti-aliasing.                  *)
DrawEllipse(mask, box, fill) ==
    [mask EXCEPT !.l = [kind |-> "ellipse", fill |-> fill, bg |-> mask.l.fill,
                        box |-> box]]

(* rounded.paste(im, (0, 0)) of an image of the same size, no mask: every  *)
(* band of im, alpha included, replaces that of rounded.                   *)
Paste(rounded, im) == [rounded EXCEPT !.rgb = im.rgb, !.alpha = im.alpha]

(* The band a * m / 255 of two bands, for the values this model has.       *)
MulBands(a, m) ==
    [kind |-> m.kind, fill |-> (a.fill * m.fill) \div 255,
     bg |-> (a.bg * m.bg) \div 255, box |-> m.box]

(* A putalpha that blends the mask into the alpha the image had.           *)
PutAlphaMultiply(im, mask) == [im EXCEPT !.alpha = MulBands(im.alpha, mask.l)]

(* im.putalpha(mask): the mask becomes the alpha band.                     *)
PutAlpha(im, mask) == [im EXCEPT !.alpha = mask.l]

(* create_round_icon, lines 19-29.                                         *)
create_round_icon(square_image) ==
    LET size    == square_image.size
        mask    == DrawEllipse(ImageNewL(size, 0),
                               <<0, 0>> \o size, 255)
        rounded == Paste(ImageNewRGBA(size, "black", 0), square_image)
    IN  PutAlpha(rounded, mask)

(* A resize that keeps the aspect ratio of the source (thumbnail-like).    *)
ResizeKeepAspect(im, size) ==
    LET w == im.size[1]
        h == im.size[2]
        m == IF w >= h THEN w ELSE h
    IN  [im EXCEPT !.size = << (size[1] * w) \div m, (size[2] * h) \div m >>,
                   !.rgb = [of |-> im.rgb.of, filter |-> "LANCZOS",
                            edge |-> size[1]]]

(* source_img.resize((size, size), LANCZOS): the result has exactly the    *)
(* requested size; its pixels are the source's, resampled (a band of one   *)
(* value stays that value).                                                *)
Resize(im, size) ==
    [im EXCEPT !.size = size,
               !.rgb = [of |-> im.rgb.of, filter |-> "LANCZOS", edge |-> size[1]]]

(* No image: the image object before Image.open has run, and the image    *)
(* part of a file that holds none.                                         *)
NoImage ==
    [mode |-> "none", size |-> <<0, 0>>,
     rgb |-> [of |-> "none", filter |-> "none", edge |-> 0],
     alpha |-> Const(0)]

(* What img.save(path, 'PNG') stores, and what a copied XML file holds.    *)
Png(img) == [kind |-> "png", img |-> img, text |-> "none"]

Xml(text) == [kind |-> "xml", img |-> NoImage, text |-> text]

(* A file a failed save left cut short.                                    *)
Partial == [kind |-> "partial", img |-> NoImage, text |-> "none"]

(* A file of an earlier build, found in the destination tree.              *)
Stale == [kind |-> "stale", img |-> NoImage, text |-> "none"]

---------------------------------------------------------------------------
(* The environment the script is started in.                               *)

(* assets/icon.png.  data is what the bytes of the file are: "ok", a file  *)
(* no decoder identifies ("unidentified": Image.open raises), or a file    *)
(* with a sound header whose pixel data is cut short or damaged            *)
(* ("truncated": Image.open, which reads the header only, succeeds, and    *)
(* the first operation that loads the pixels raises).                      *)
(* artwork names the picture the file shows.                               *)
NoIcon ==
    [exists |-> FALSE, mode |-> "none", size |-> <<0, 0>>, alpha |-> 0,
     data |-> "none", artwork |-> "none"]

IconFile(mode, size, alpha, data) ==
    [exists |-> TRUE, mode |-> mode, size |-> size, alpha |-> alpha,
     data |-> data, artwork |-> "first"]

(* The file after the artwork has been redrawn: same format, other pixels. *)
Redrawn(f) ==
    IF f.exists
    THEN [f EXCEPT !.artwork = IF f.artwork = "first" THEN "second" ELSE "first"]
    ELSE f

IconFiles ==
    { IconFile("RGB", sz, 255, d) :
        sz \in { <<512, 512>>, <<300, 100>> },
        d \in { "ok", "unidentified", "truncated" } }
    \cup
    { IconFile("RGBA", sz, a, d) :
        sz \in { <<512, 512>>, <<300, 100>> },
        a \in { 0, 128 },
        d \in { "ok", "truncated" } }

(* android-resources-manual-fix: whether the directory exists and which of *)
(* the four files of xml_files (by index) it holds.                        *)
ManualDirs ==
    { [exists |-> FALSE, present |-> {}] }
    \cup { [exists |-> TRUE, present |-> S] : S \in SUBSET (1..Len(xml_files)) }

(* The destination tree as the script may find it: absent, a bare          *)
(* scaffold, the output of an earlier build, or what a build that was      *)
(* interrupted left.                                                       *)
ScaffoldDirs == Prefixes(android_res)

EarlierDirs ==
    ScaffoldDirs
    \cup { mipmap_dir(android_res, i) : i \in 1..Len(densities) }
    \cup { Join(android_res, <<"values">>) }

EarlierFiles ==
    [p \in { square_path(android_res, i) : i \in 1..Len(densities) }
           \cup { round_path(android_res, i) : i \in 1..Len(densities) }
           \cup { Join(android_res, <<"values", "strings.xml">>) }
       |-> Stale]

NoFiles == [p \in {} |-> Stale]

InterruptedDirs ==
    ScaffoldDirs \cup { mipmap_dir(android_res, 1), mipmap_dir(android_res, 2) }

InterruptedFiles ==
    [p \in { square_path(android_res, 1), round_path(android_res, 1),
             square_path(android_res, 2) }
       |-> IF p = square_path(android_res, 2) THEN Partial ELSE Stale]

DestTrees ==
    { [dirs |-> {}, files |-> NoFiles],
      [dirs |-> ScaffoldDirs, files |-> NoFiles],
      [dirs |-> EarlierDirs, files |-> EarlierFiles],
      [dirs |-> InterruptedDirs, files |-> InterruptedFiles] }

---------------------------------------------------------------------------
(* File-system calls.                                                      *)

Exists(ds, fs, p) == p \in ds \/ p \in DOMAIN fs

(* A mkdir without exist_ok: an existing directory is an error as well.    *)
MkdirRaisesIfPresent(ds, fs, p) == p \in DOMAIN fs \/ p \in ds

(* p.mkdir(parents=True, exist_ok=True) raises FileExistsError only when p *)
(* exists and is not a directory.                                          *)
MkdirRaises(ds, fs, p) == p \in DOMAIN fs

(* What p.mkdir(parents=True, exist_ok=True) leaves: p and every missing   *)
(* ancestor exist.                                                         *)
Mkdir(ds, p) == ds \cup Prefixes(p)

(* The file p holds c, created or overwritten.                             *)
WriteFile(fs, p, c) ==
    [q \in DOMAIN fs \cup { p } |-> IF q = p THEN c ELSE fs[q]]

(* What a save that raised may leave: nothing changed, or, of a file that  *)
(* was there before, a part of the new bytes.                              *)
AfterFailedSave(fs, p) ==
    { fs } \cup (IF p \in DOMAIN fs THEN { WriteFile(fs, p, Partial) } ELSE {})

---------------------------------------------------------------------------
(* State.                                                                  *)

VARIABLES
    pillow,          \* environment: whether "from PIL import ..." succeeds
    icon,            \* environment: the file assets/icon.png
    manual,          \* environment: android-resources-manual-fix
    dirs,            \* the directories that exist at or under android_res
    files,           \* the regular files under android_res, with contents
    pc,              \* where the script is
    run,             \* the number of this run of the script
    source_img,      \* generate_icons: source_img
    loaded,          \* whether the pixels of source_img have been decoded
    square_resized,  \* generate_icons: square_resized
    di,              \* generate_icons: the density the loop is at (index)
    xi,              \* copy_xml_resources: the entry the loop is at (index)
    success,         \* generate_icons' return value: "none", "true", "false"
    exitStatus,      \* the process's exit status; -1 while it runs
    uncaught,        \* the exception that ended the run with a traceback
    out,             \* the lines printed so far in this run
    written,         \* history: the icon files saved so far in this run
    entry,           \* history: dirs and files when main started
    prevGenTrue,     \* history: the run before this one had generate_icons
                     \* return true
    prevIcon         \* history: the source icon of the run before this one

vars ==
    << pillow, icon, manual, dirs, files, pc, run, source_img, loaded,
       square_resized, di, xi, success, exitStatus, uncaught, out, written,
       entry, prevGenTrue, prevIcon >>

history == << entry, prevGenTrue, prevIcon >>

env == << pillow, icon, manual >>

locals == << source_img, loaded, square_resized, di, xi, success >>

Init ==
    /\ pillow \in BOOLEAN
    /\ icon \in { NoIcon } \cup IconFiles
    /\ manual \in ManualDirs
    /\ \E t \in DestTrees :
          /\ dirs = t.dirs
          /\ files = t.files
          /\ entry = t
    /\ pc = "import"
    /\ run = 1
    /\ source_img = NoImage
    /\ loaded = FALSE
    /\ square_resized = NoImage
    /\ di = 0
    /\ xi = 0
    /\ success = "none"
    /\ exitStatus = -1
    /\ uncaught = "none"
    /\ out = << >>
    /\ written = << >>
    /\ prevGenTrue = FALSE
    /\ prevIcon = NoIcon

(* sys.exit(status).                                                       *)
Exit(status) ==
    /\ pc' = "exited"
    /\ exitStatus' = status
    /\ uncaught' = "none"

(* An exception nothing catches: the interpreter prints the traceback and  *)
(* the process ends with status 1.                                         *)
Raise(exception) ==
    /\ pc' = "exited"
    /\ exitStatus' = 1
    /\ uncaught' = exception

(* print(...): one entry per message, with the path it names.              *)
Line(tag, path) == [tag |-> tag, path |-> path]

Emit(line) == out' = Append(out, line)

---------------------------------------------------------------------------
(* Decoding the source icon (generate_icons, lines 45-52 and 62).          *)

(* Image.open(path) identifies the file from its header and raises when no *)
(* decoder accepts it (or when there is no file); it does not decode the   *)
(* pixel data.                                                             *)
OpenRaises(f) == ~f.exists \/ f.data = "unidentified"

(* The image Image.open returns.                                           *)
Open(f) ==
    [mode |-> f.mode, size |-> f.size,
     rgb |-> [of |-> f.artwork, filter |-> "none", edge |-> 0],
     alpha |-> Const(f.alpha)]

(* Line 48: convert is called only for a mode other than 'RGBA'.           *)
NeedsConvert(im) == im.mode # "RGBA"

(* source_img.convert('RGBA') decodes the pixel data, and raises when the  *)
(* data is cut short or damaged.                                           *)
ConvertRaises(f) == f.data = "truncated"

Convert(im) == [im EXCEPT !.mode = "RGBA"]

(* source_img.resize(...) decodes the pixel data of an image that has not  *)
(* been decoded yet, and raises as convert does.                           *)
ResizeRaises(isLoaded, f) == ~isLoaded /\ f.data = "truncated"

---------------------------------------------------------------------------
(* The script.                                                             *)

(* Lines 11-16.                                                            *)
Import ==
    /\ pc = "import"
    /\ IF pillow
       THEN /\ pc' = "main"
            /\ UNCHANGED << exitStatus, uncaught, out >>
       ELSE /\ Emit(Line("ERROR: Pillow is required", << >>))
            /\ Exit(1)
    /\ UNCHANGED << env, dirs, files, run, locals, written, history >>

(* A check that finds the icon whether or not it is there.                 *)
SourceIconFoundAlways == TRUE

(* Line 118: source_icon.exists().                                         *)
SourceIconFound == icon.exists

(* main, lines 105-120.                                                    *)
ValidateSourceIcon ==
    /\ pc = "main"
    /\ IF SourceIconFound
       THEN /\ Emit(Line("Android Icon & Resource Generator", << >>))
            /\ pc' = "check_android"
            /\ UNCHANGED << exitStatus, uncaught >>
       ELSE /\ out' = out \o << Line("Android Icon & Resource Generator", << >>),
                               Line("ERROR: Source icon not found", source_icon) >>
            /\ Exit(1)
    /\ UNCHANGED << env, dirs, files, run, locals, written, history >>

(* A check that finds the directory whether or not it is there.            *)
DestinationRootFoundAlways == TRUE

(* Line 123: android_res.exists().                                         *)
DestinationRootFound == Exists(dirs, files, android_res)

(* main, lines 122-128.                                                    *)
ValidateDestinationRoot ==
    /\ pc = "check_android"
    /\ IF DestinationRootFound
       THEN /\ pc' = "gen_load"
            /\ UNCHANGED << exitStatus, uncaught, out >>
       ELSE /\ Emit(Line("ERROR: Android res directory not found", android_res))
            /\ Exit(1)
    /\ UNCHANGED << env, dirs, files, run, locals, written, history >>

(* generate_icons, lines 44-55: the try block and its except clause.       *)
LoadSource ==
    /\ pc = "gen_load"
    /\ IF \/ OpenRaises(icon)
          \/ (NeedsConvert(Open(icon)) /\ ConvertRaises(icon))
       THEN /\ out' = out \o << Line("Loading source icon", source_icon),
                               Line("ERROR: Could not load", source_icon) >>
            /\ success' = "false"
            /\ pc' = "returned"
            /\ UNCHANGED << source_img, loaded, di >>
       ELSE /\ source_img' = IF NeedsConvert(Open(icon))
                             THEN Convert(Open(icon)) ELSE Open(icon)
            /\ loaded' = NeedsConvert(Open(icon))
            /\ out' = out \o << Line("Loading source icon", source_icon),
                               Line("Source icon size", source_icon) >>
            /\ di' = 1
            /\ success' = success
            /\ pc' = "mkdir"
    /\ UNCHANGED << env, dirs, files, run, square_resized, xi, exitStatus,
                    uncaught, written, history >>

(* generate_icons, lines 57-59.  The call may fail for a reason of the     *)
(* environment's (fault).                                                  *)
MakeMipmapDir ==
    /\ pc = "mkdir"
    /\ \E fault \in BOOLEAN :
          IF MkdirRaises(dirs, files, mipmap_dir(android_res, di))
          THEN /\ Raise("FileExistsError")
               /\ UNCHANGED dirs
          ELSE IF fault
          THEN /\ Raise("OSError: write failed")
               /\ UNCHANGED dirs
          ELSE /\ dirs' = Mkdir(dirs, mipmap_dir(android_res, di))
               /\ pc' = "square"
               /\ UNCHANGED << exitStatus, uncaught >>
    /\ UNCHANGED << env, files, run, locals, out, written, history >>

(* A decoding failure in the loop handled as the except clause of line 50  *)
(* handles one: reported, and generate_icons returns False.                *)
ResizeFailureCaught ==
    /\ success' = "false"
    /\ pc' = "returned"
    /\ UNCHANGED << exitStatus, uncaught >>

(* Line 62 is outside the try block of lines 45-52: what resize raises     *)
(* leaves generate_icons and main.                                         *)
ResizeFailure ==
    /\ Raise("OSError: image file is truncated")
    /\ UNCHANGED success

(* generate_icons, lines 61-65.                                            *)
SaveSquare ==
    /\ pc = "square"
    /\ LET size == densities[di].size
           path == square_path(android_res, di)
           img  == Resize(source_img, <<size, size>>)
       IN  IF ResizeRaises(loaded, icon)
           THEN /\ ResizeFailure
                /\ UNCHANGED << files, loaded, square_resized, out, written >>
           ELSE \E fault \in BOOLEAN :
                  IF fault
                  THEN /\ Raise("OSError: write failed")
                       /\ files' \in AfterFailedSave(files, path)
                       /\ loaded' = TRUE
                       /\ square_resized' = img
                       /\ UNCHANGED << success, out, written >>
                  ELSE /\ files' = WriteFile(files, path, Png(img))
                       /\ loaded' = TRUE
                       /\ square_resized' = img
                       /\ written' = Append(written, path)
                       /\ Emit(Line("Created", path))
                       /\ pc' = "round"
                       /\ UNCHANGED << success, exitStatus, uncaught >>
    /\ UNCHANGED << env, dirs, run, source_img, di, xi, history >>

(* generate_icons, lines 67-71, and the loop's step.                       *)
SaveRound ==
    /\ pc = "round"
    /\ LET path == round_path(android_res, di)
           img  == create_round_icon(square_resized)
       IN  \E fault \in BOOLEAN :
             IF fault
             THEN /\ Raise("OSError: write failed")
                  /\ files' \in AfterFailedSave(files, path)
                  /\ UNCHANGED << di, out, written >>
             ELSE /\ files' = WriteFile(files, path, Png(img))
                  /\ written' = Append(written, path)
                  /\ Emit(Line("Created", path))
                  /\ di' = di + 1
                  /\ pc' = IF di = Len(densities) THEN "gen_done" ELSE "mkdir"
                  /\ UNCHANGED << exitStatus, uncaught >>
    /\ UNCHANGED << env, dirs, run, source_img, loaded, square_resized, xi,
                    success, history >>

(* generate_icons, lines 73-75.                                            *)
GenerateReturn ==
    /\ pc = "gen_done"
    /\ Emit(Line("SUCCESS! All Android icons generated.", << >>))
    /\ success' = "true"
    /\ pc' = "returned"
    /\ UNCHANGED << env, dirs, files, run, source_img, loaded, square_resized,
                    di, xi, exitStatus, uncaught, written, history >>

(* A caller that ignores the result of generate_icons.                     *)
GenerationSucceededAlways == TRUE

(* Line 133: the test of the value generate_icons returned.                *)
GenerationSucceeded == success = "true"

(* main, lines 131-134.                                                    *)
CheckSuccess ==
    /\ pc = "returned"
    /\ IF GenerationSucceeded
       THEN /\ pc' = "copy"
            /\ UNCHANGED << exitStatus, uncaught >>
       ELSE Exit(1)
    /\ UNCHANGED << env, dirs, files, run, locals, out, written, history >>

(* main, lines 136-141, and copy_xml_resources up to its loop (line 89).   *)
CopyResources ==
    /\ pc = "copy"
    /\ IF manual.exists
       THEN /\ Emit(Line("Copying XML resources...", << >>))
            /\ xi' = 1
            /\ pc' = "copy_file"
       ELSE /\ Emit(Line("Note: android-resources-manual-fix directory not found.",
                         manual_fix_dir))
            /\ xi' = xi
            /\ pc' = "complete"
    /\ UNCHANGED << env, dirs, files, run, source_img, loaded, square_resized,
                    di, success, exitStatus, uncaught, written, history >>

(* src.exists() for the entry i of xml_files.                              *)
SrcExists(i) == manual.exists /\ i \in manual.present

(* What shutil.copy2 reads from the entry i: the file's own text.          *)
SrcContent(i) == Xml(BaseName(xml_files[i].file_path))

(* A loop that stops at the first file it does not find.                   *)
NextAfterMissingStops(i, found) ==
    IF i = Len(xml_files) \/ ~found THEN "complete" ELSE "copy_file"

(* Where the loop of copy_xml_resources goes after the entry i: on to the  *)
(* next entry whether or not the file was found, and back to main after    *)
(* the last.                                                               *)
NextAfter(i, found) == IF i = Len(xml_files) THEN "complete" ELSE "copy_file"

(* copy_xml_resources, lines 90-100: one iteration.  mkdir raises as in    *)
(* generate_icons when the name is taken by a file; apart from that the    *)
(* two calls are taken to succeed: the script has no handler for their     *)
(* failure, which would end the run as a failed save ends it.              *)
CopyXmlFile ==
    /\ pc = "copy_file"
    /\ LET dest_dir_path == Join(android_res, xml_files[xi].subdir)
           dest == Join(dest_dir_path, << BaseName(xml_files[xi].file_path) >>)
       IN  IF MkdirRaises(dirs, files, dest_dir_path)
           THEN /\ Raise("FileExistsError")
                /\ UNCHANGED << dirs, files, out, xi >>
           ELSE /\ dirs' = Mkdir(dirs, dest_dir_path)
                /\ IF SrcExists(xi)
                   THEN /\ files' = WriteFile(files, dest, SrcContent(xi))
                        /\ Emit(Line("Copied", dest))
                   ELSE /\ files' = files
                        /\ Emit(Line("Source not found",
                                     Join(manual_fix_dir, xml_files[xi].file_path)))
                /\ xi' = xi + 1
                /\ pc' = NextAfter(xi, SrcExists(xi))
                /\ UNCHANGED << exitStatus, uncaught >>
    /\ UNCHANGED << env, run, source_img, loaded, square_resized, di, success,
                    written, history >>

(* main, lines 143-151: the banner; the script ends with status 0.         *)
Complete ==
    /\ pc = "complete"
    /\ Emit(Line("COMPLETE!", << >>))
    /\ Exit(0)
    /\ UNCHANGED << env, dirs, files, run, locals, written, history >>

(* The script is started again on the tree the run before left, after a    *)
(* run that ended by itself (status 0, or 1 with its error message).  The  *)
(* source icon is as it was, or has been redrawn in between; the resource  *)
(* directory is as it was.                                                 *)
Rerun ==
    /\ pc = "exited"
    /\ uncaught = "none"
    /\ run < MaxRuns
    /\ run' = run + 1
    /\ pc' = "import"
    /\ source_img' = NoImage
    /\ loaded' = FALSE
    /\ square_resized' = NoImage
    /\ di' = 0
    /\ xi' = 0
    /\ success' = "none"
    /\ exitStatus' = -1
    /\ uncaught' = "none"
    /\ out' = << >>
    /\ written' = << >>
    /\ entry' = [dirs |-> dirs, files |-> files]
    /\ prevGenTrue' = (success = "true")
    /\ prevIcon' = icon
    /\ icon' \in { icon, Redrawn(icon) }
    /\ UNCHANGED << pillow, manual, dirs, files >>

Next ==
    \/ Import
    \/ ValidateSourceIcon
    \/ ValidateDestinationRoot
    \/ LoadSource
    \/ MakeMipmapDir
    \/ SaveSquare
    \/ SaveRound
    \/ GenerateReturn
    \/ CheckSuccess
    \/ CopyResources
    \/ CopyXmlFile
    \/ Complete
    \/ Rerun

Spec == Init /\ [][Next]_vars

---------------------------------------------------------------------------
(* Properties.                                                             *)

TreeUnchanged == dirs = entry.dirs /\ files = entry.files

(* C1: when the source icon does not exist, the run ends with a non-zero   *)
(* status at the check of line 118: it never goes past that check, and no  *)
(* directory is created and no file written, whatever the destination      *)
(* root and the resource directory are.                                    *)
C1_MissingSourceIconExitsFirst ==
    ~icon.exists =>
        /\ TreeUnchanged
        /\ written = << >>
        /\ pc \in { "import", "main", "exited" }
        /\ pc = "exited" => exitStatus = 1

C1_Witness ==
    /\ ~icon.exists
    /\ pillow
    /\ pc = "exited"
    /\ exitStatus = 1
    /\ Exists(dirs, files, android_res)
    /\ manual.exists

(* C2: when the source icon exists and the destination root does not, the  *)
(* run ends with a non-zero status at the check of line 123:               *)
(* generate_icons is never entered, the destination root is not created    *)
(* and no icon file is written.                                            *)
C2_MissingDestinationRootExits ==
    (icon.exists /\ ~Exists(entry.dirs, entry.files, android_res)) =>
        /\ TreeUnchanged
        /\ ~Exists(dirs, files, android_res)
        /\ written = << >>
        /\ success = "none"
        /\ pc \in { "import", "main", "check_android", "exited" }
        /\ pc = "exited" => exitStatus = 1

C2_Witness ==
    /\ icon.exists
    /\ icon.data = "ok"
    /\ pillow
    /\ ~Exists(entry.dirs, entry.files, android_res)
    /\ pc = "exited"
    /\ exitStatus = 1

(* The destination and the source of the entry i of the copier's list.     *)
XmlDest(i) ==
    Join(Join(android_res, xml_files[i].subdir),
         << BaseName(xml_files[i].file_path) >>)

XmlSrc(i) == Join(manual_fix_dir, xml_files[i].file_path)

HasLine(line) == \E k \in 1..Len(out) : out[k] = line

(* What the copier has done with the entry i once it is past it.           *)
XmlEntryDone(i) ==
    IF i \in manual.present
    THEN /\ XmlDest(i) \in DOMAIN files
         /\ files[XmlDest(i)] = SrcContent(i)
         /\ HasLine(Line("Copied", XmlDest(i)))
    ELSE /\ HasLine(Line("Source not found", XmlSrc(i)))
         /\ ~HasLine(Line("Copied", XmlDest(i)))
         /\ XmlDest(i) \in DOMAIN files =>
               /\ XmlDest(i) \in DOMAIN entry.files
               /\ files[XmlDest(i)] = entry.files[XmlDest(i)]

C4_AllDensitiesGenerated ==
    LET table == << <<"mipmap-mdpi", 48>>, <<"mipmap-hdpi", 72>>,
                    <<"mipmap-xhdpi", 96>>, <<"mipmap-xxhdpi", 144>>,
                    <<"mipmap-xxxhdpi", 192>> >>
    IN  success = "true" =>
          \A k \in 1..5 :
             LET dir  == Join(android_res, << table[k][1] >>)
                 edge == table[k][2]
             IN  /\ dir \in dirs
                 /\ \A name \in { "ic_launcher.png", "ic_launcher_round.png" } :
                       /\ Join(dir, << name >>) \in DOMAIN files
                       /\ files[Join(dir, << name >>)].kind = "png"
                       /\ files[Join(dir, << name >>)].img.size = << edge, edge >>

C4_Witness ==
    /\ success = "true"
    /\ icon.size = <<300, 100>>
    /\ entry.files = NoFiles
    /\ files[Join(android_res, <<"mipmap-xxxhdpi", "ic_launcher.png">>)].img.size
          = <<192, 192>>

(* C5: generation is idempotent.  No run ends because a mipmap directory   *)
(* or an icon file is already there, and a generate_icons that returns     *)
(* true in the run after one in which it returned true, on the same source *)
(* icon, leaves the directories, the files and every file's content as     *)
(* the run before left them.                                               *)
C5_GenerationIdempotent ==
    /\ uncaught # "FileExistsError"
    /\ (run > 1 /\ prevGenTrue /\ prevIcon = icon /\ success = "true") =>
          TreeUnchanged

C5_Witness ==
    /\ run = 2
    /\ prevGenTrue
    /\ prevIcon = icon
    /\ success = "true"
    /\ pc = "returned"
    /\ Len(written) = 10

(* C6: a source icon that exists and cannot be decoded makes               *)
(* generate_icons report the failure and return false, and main end with a *)
(* non-zero status: the decoding error never leaves generate_icons as an   *)
(* exception, and such a run reaches neither the copier nor the banner.    *)
C6_DecodeFailureCaught ==
    (icon.exists /\ icon.data # "ok") =>
        /\ uncaught # "OSError: image file is truncated"
        /\ pc \notin { "copy", "copy_file", "complete" }
        /\ pc = "exited" => exitStatus # 0
        /\ (pc = "exited" /\ uncaught = "none" /\ HasLine(Line("Loading source icon", source_icon)))
              => (success = "false" /\ HasLine(Line("ERROR: Could not load", source_icon)))

Corners(size) ==
    { <<0, 0>>, <<size[1] - 1, 0>>, <<0, size[2] - 1>>,
      <<size[1] - 1, size[2] - 1>> }

Centre(size) == << size[1] \div 2, size[2] \div 2 >>

EdgeMiddles(size) ==
    { <<size[1] \div 2, 0>>, <<0, size[2] \div 2>>,
      <<size[1] \div 2, size[2] - 1>>, <<size[1] - 1, size[2] \div 2>> }

(* C8: the round icon made from a square resized image (read from the two  *)
(* files as soon as the round one is written) has the square's size and    *)
(* colour bands, and as its alpha band the ellipse mask: 0 at the four     *)
(* corners, 255 at the centre and where the ellipse touches the edges, 0   *)
(* or 255 everywhere, whatever alpha the square image had.                 *)
C8_RoundIconIsMasked ==
    (pc \in { "mkdir", "gen_done" } /\ di > 1) =>
          LET sq == files[square_path(android_res, di - 1)].img
              rd == files[round_path(android_res, di - 1)].img
          IN  /\ rd.mode = "RGBA"
              /\ rd.size = sq.size
              /\ rd.rgb = sq.rgb
              /\ sq.alpha = Const(icon.alpha)
              /\ \A p \in Corners(rd.size) : PixelAt(rd.alpha, p[1], p[2]) = 0
              /\ PixelAt(rd.alpha, Centre(rd.size)[1], Centre(rd.size)[2]) = 255
              /\ \A p \in EdgeMiddles(rd.size) : PixelAt(rd.alpha, p[1], p[2]) = 255
              /\ \A x \in 0..(rd.size[1] - 1) :
                    PixelAt(rd.alpha, x, x) \in { 0, 255 }

C8_Witness ==
    /\ pc = "mkdir"
    /\ di = 2
    /\ icon.mode = "RGBA"
    /\ icon.alpha = 128
    /\ files[square_path(android_res, 1)].img.alpha = Const(128)
    /\ PixelAt(files[round_path(android_res, 1)].img.alpha, 24, 24) = 255
    /\ PixelAt(files[round_path(android_res, 1)].img.alpha, 0, 0) = 0

(* The ten icon files in the fixed order.                                  *)
C9_FixedSequence ==
    << Join(android_res, <<"mipmap-mdpi", "ic_launcher.png">>),
       Join(android_res, <<"mipmap-mdpi", "ic_launcher_round.png">>),
       Join(android_res, <<"mipmap-hdpi", "ic_launcher.png">>),
       Join(android_res, <<"mipmap-hdpi", "ic_launcher_round.png">>),
       Join(android_res, <<"mipmap-xhdpi", "ic_launcher.png">>),
       Join(android_res, <<"mipmap-xhdpi", "ic_launcher_round.png">>),
       Join(android_res, <<"mipmap-xxhdpi", "ic_launcher.png">>),
       Join(android_res, <<"mipmap-xxhdpi", "ic_launcher_round.png">>),
       Join(android_res, <<"mipmap-xxxhdpi", "ic_launcher.png">>),
       Join(android_res, <<"mipmap-xxxhdpi", "ic_launcher_round.png">>) >>

IsCreatedLine(line) == line.tag = "Created"

C10_FailureLeavesTreeUnchanged ==
    success = "false" =>
        /\ TreeUnchanged
        /\ written = << >>
        /\ \A i \in 1..Len(densities) :
              mipmap_dir(android_res, i) \in dirs
                 => mipmap_dir(android_res, i) \in entry.dirs

C10_Witness ==
    /\ success = "false"
    /\ pc = "exited"
    /\ exitStatus = 1
    /\ icon.data = "truncated"
    /\ dirs = ScaffoldDirs
===========================================================================
